---- MODULE Spec2Model ----
(***************************************************************************)
(* Model of lsp-adapter's uris.go: the identifier translator               *)
(* (clientToServerURI / serverToClientURI), the structural walker          *)
(* (WalkURIFields) and the per-session workspace cache.                    *)
(*                                                                         *)
(* A Go string is a sequence of one-character strings, so that parsing,    *)
(* escaping, cleaning and prefix tests are computed character by character *)
(* the way the Go code and its standard library compute them.              *)
(***************************************************************************)
EXTENDS Naturals, Sequences, FiniteSets, TLC

VARIABLES
    \* ---- identifier translator (SpecURI) ----
    uri,        \* the identifier handed to the translator
    sysDir,     \* the sysCacheDir argument
    first,      \* which translation ran first: "none", "c2s" or "s2c"
    out1,       \* result of the first translation
    back,       \* TRUE once the opposite translation was applied to out1
    out2,       \* result of the second translation
    \* ---- structural walker (SpecWalk) ----
    payload,    \* the decoded params/result object
    wmode,      \* the update argument: "nil", "toServer" or "toClient"
    wstate,     \* "ready", "done" or "panic"
    wresult,    \* the object after the walk
    \* ---- workspace cache (SpecCache) ----
    cacheRoot,  \* the -cacheDirectory flag (*cacheDir)
    sessionID,  \* per session: p.sessionID.String()
    spc,        \* per session: "new", "cloning", "cloned", "failed" or "gone"
    fs,         \* the local file system: the set of existing paths
    touched     \* per session: the paths its clone and clean have acted on

vars == <<uri, sysDir, first, out1, back, out2,
          payload, wmode, wstate, wresult,
          cacheRoot, sessionID, spc, fs, touched>>

uriVars == <<uri, sysDir, first, out1, back, out2>>
walkVars == <<payload, wmode, wstate, wresult>>
cacheVars == <<cacheRoot, sessionID, spc, fs, touched>>

----------------------------------------------------------------------------
(* Go strings package *)

HasPrefix(s, p) == Len(p) <= Len(s) /\ SubSeq(s, 1, Len(p)) = p

HasSuffix(s, p) == Len(p) <= Len(s) /\ SubSeq(s, Len(s) - Len(p) + 1, Len(s)) = p

TrimPrefix(s, p) == IF HasPrefix(s, p) THEN SubSeq(s, Len(p) + 1, Len(s)) ELSE s

\* strings.Index for a one-character separator; 0 when absent (Go: -1)
Index(s, ch) ==
    IF \E i \in 1..Len(s) : s[i] = ch
    THEN CHOOSE i \in 1..Len(s) : s[i] = ch /\ \A j \in 1..(i - 1) : s[j] # ch
    ELSE 0

Count(s, ch) == Cardinality({i \in 1..Len(s) : s[i] = ch})

Contains(s, ch) == \E i \in 1..Len(s) : s[i] = ch

RECURSIVE Split(_, _)
\* strings.Split(s, sep) for a one-character sep
Split(s, sep) ==
    LET i == Index(s, sep) IN
    IF i = 0 THEN <<s>>
    ELSE <<SubSeq(s, 1, i - 1)>> \o Split(SubSeq(s, i + 1, Len(s)), sep)

RECURSIVE JoinStrings(_, _)
\* strings.Join(elems, sep)
JoinStrings(elems, sep) ==
    IF Len(elems) = 0 THEN <<>>
    ELSE IF Len(elems) = 1 THEN elems[1]
    ELSE elems[1] \o sep \o JoinStrings(Tail(elems), sep)

LowerSeq ==
    <<"a", "b", "c", "d", "e", "f", "g", "h", "i", "j", "k", "l", "m",
      "n", "o", "p", "q", "r", "s", "t", "u", "v", "w", "x", "y", "z">>

UpperSeq ==
    <<"A", "B", "C", "D", "E", "F", "G", "H", "I", "J", "K", "L", "M",
      "N", "O", "P", "Q", "R", "S", "T", "U", "V", "W", "X", "Y", "Z">>

Lower == {LowerSeq[i] : i \in DOMAIN LowerSeq}
Upper == {UpperSeq[i] : i \in DOMAIN UpperSeq}
Letters == Upper \cup Lower
Digits == {"0", "1", "2", "3", "4", "5", "6", "7", "8", "9"}

ToLowerChar(ch) ==
    IF ch \in Upper
    THEN LowerSeq[CHOOSE i \in DOMAIN UpperSeq : UpperSeq[i] = ch]
    ELSE ch

ToLower(s) == [i \in 1..Len(s) |-> ToLowerChar(s[i])]

----------------------------------------------------------------------------
(* Go path and path/filepath packages *)

\* os.PathSeparator of the build (the image is built and run on Linux)
PathSeparator == "/"

\* filepath.ToSlash: every separator replaced by a slash
ToSlash(p) == [i \in 1..Len(p) |-> IF p[i] = PathSeparator THEN "/" ELSE p[i]]

RECURSIVE CleanSegs(_, _, _)
\* path.Clean's scan over the elements of the path: empty and "." elements
\* are dropped, ".." removes the element before it, is kept in front of a
\* relative path and is dropped at the root
CleanSegs(segs, rooted, acc) ==
    IF Len(segs) = 0 THEN acc
    ELSE LET e == Head(segs)
             rest == Tail(segs)
         IN  IF e = <<>> \/ e = <<".">> THEN CleanSegs(rest, rooted, acc)
             ELSE IF e = <<".", ".">>
                  THEN IF Len(acc) > 0 /\ acc[Len(acc)] # <<".", ".">>
                       THEN CleanSegs(rest, rooted, SubSeq(acc, 1, Len(acc) - 1))
                       ELSE IF rooted THEN CleanSegs(rest, rooted, acc)
                       ELSE CleanSegs(rest, rooted, Append(acc, e))
                  ELSE CleanSegs(rest, rooted, Append(acc, e))

\* path.Clean
Clean(p) ==
    IF p = <<>> THEN <<".">>
    ELSE LET rooted == p[1] = "/"
             body == JoinStrings(CleanSegs(Split(p, "/"), rooted, <<>>), <<"/">>)
             res == IF rooted THEN <<"/">> \o body ELSE body
         IN  IF res = <<>> THEN <<".">> ELSE res

\* path.Join written as a concatenation, without the cleaning
PathJoin_NoClean(a, b) == a \o <<"/">> \o b

\* path.Join(a, b): the first empty argument is skipped, the rest is joined
\* with slashes and cleaned
PathJoin(a, b) ==
    IF a # <<>> THEN Clean(a \o <<"/">> \o b)
    ELSE IF b # <<>> THEN Clean(b)
    ELSE <<>>

\* filepath.Join on the build's separator
FilepathJoin(a, b) == PathJoin(ToSlash(a), ToSlash(b))

\* directory containment, as os.RemoveAll sees it: p is the directory that
\* c names, or lies below it
InsideDir(p, c) ==
    LET d == Clean(c) IN
    p = d \/ HasPrefix(p, IF d = <<"/">> THEN d ELSE d \o <<"/">>)

----------------------------------------------------------------------------
(* Go net/url package, as used by the translator, in the release the image
   is built with (golang:1.10) *)

\* the bytes the model can name by a percent escape
HexPairs == {<<"2", "0">>, <<"2", "3">>, <<"2", "5">>, <<"3", "F">>, <<"6", "3">>}

HexByte(h) ==
    CASE h = <<"2", "0">> -> " "
      [] h = <<"2", "3">> -> "#"
      [] h = <<"2", "5">> -> "%"
      [] h = <<"3", "F">> -> "?"
      [] h = <<"6", "3">> -> "c"

ByteHex(ch) ==
    CASE ch = " " -> <<"%", "2", "0">>
      [] ch = "#" -> <<"%", "2", "3">>
      [] ch = "%" -> <<"%", "2", "5">>
      [] ch = "?" -> <<"%", "3", "F">>
      [] OTHER -> <<ch>>

\* url.shouldEscape for the modes encodePath and encodeFragment
shouldEscape(ch, mode) ==
    IF ch \in Letters \cup Digits \cup {"-", "_", ".", "~"} THEN FALSE
    ELSE IF ch \in {"$", "&", "+", ",", "/", ":", ";", "=", "@"}
         THEN FALSE
    ELSE IF ch = "?" THEN mode = "path"
    ELSE TRUE

RECURSIVE escape(_, _)
\* url.escape
escape(s, mode) ==
    IF Len(s) = 0 THEN <<>>
    ELSE (IF shouldEscape(s[1], mode) THEN ByteHex(s[1]) ELSE <<s[1]>>)
         \o escape(Tail(s), mode)

RECURSIVE unescapeOK(_)
\* url.unescape's first pass: every % is followed by two hex digits
unescapeOK(s) ==
    IF Len(s) = 0 THEN TRUE
    ELSE IF s[1] = "%"
         THEN Len(s) >= 3 /\ <<s[2], s[3]>> \in HexPairs
              /\ unescapeOK(SubSeq(s, 4, Len(s)))
         ELSE unescapeOK(Tail(s))

RECURSIVE unescape(_)
\* url.unescape's second pass
unescape(s) ==
    IF Len(s) = 0 THEN <<>>
    ELSE IF s[1] = "%"
         THEN <<HexByte(<<s[2], s[3]>>)>> \o unescape(SubSeq(s, 4, Len(s)))
         ELSE <<s[1]>> \o unescape(Tail(s))

\* url.validEncodedPath
validEncodedPath(s) ==
    \A i \in 1..Len(s) :
        \/ s[i] \in {"!", "$", "&", "'", "(", ")", "*", "+", ",", ";", "=",
                     ":", "@", "[", "]", "%"}
        \/ ~shouldEscape(s[i], "path")

\* url.getscheme, at the first character i that cannot continue a scheme
\* (0: there is none)
getschemeAt(raw, i) ==
    IF i = 0 THEN [ok |-> TRUE, scheme |-> <<>>, rest |-> raw]
    ELSE IF raw[i] = ":"
    THEN IF i = 1 THEN [ok |-> FALSE, scheme |-> <<>>, rest |-> <<>>]
         ELSE [ok |-> TRUE, scheme |-> SubSeq(raw, 1, i - 1),
               rest |-> SubSeq(raw, i + 1, Len(raw))]
    ELSE [ok |-> TRUE, scheme |-> <<>>, rest |-> raw]

\* the positions at which url.getscheme's scan stops
schemeStops(raw) ==
    {i \in 1..Len(raw) :
        /\ raw[i] \notin Letters
        /\ (i = 1 \/ raw[i] \notin Digits \cup {"+", "-", "."})}

Min(S) == IF S = {} THEN 0 ELSE CHOOSE k \in S : \A j \in S : k <= j

\* url.getscheme: [ok, scheme, rest]
getscheme(raw) == getschemeAt(raw, Min(schemeStops(raw)))

\* url.parseHost, for hosts without port, brackets or user info
validHost(h) == \A i \in 1..Len(h) : h[i] \in Letters \cup Digits \cup {".", "-"}

NoURL ==
    [ok |-> FALSE, Scheme |-> <<>>, Opaque |-> <<>>, Host |-> <<>>,
     Path |-> <<>>, RawPath |-> <<>>, ForceQuery |-> FALSE,
     RawQuery |-> <<>>, Fragment |-> <<>>]

\* url.Parse, last step: setPath and setFragment, after the authority
setPath(scheme, host, p, force, query, frag) ==
    IF ~unescapeOK(p) \/ ~unescapeOK(frag) THEN NoURL
    ELSE [ok |-> TRUE, Scheme |-> scheme, Opaque |-> <<>>, Host |-> host,
          Path |-> unescape(p),
          RawPath |-> IF p = escape(unescape(p), "path") THEN <<>> ELSE p,
          ForceQuery |-> force, RawQuery |-> query,
          Fragment |-> unescape(frag)]

\* url.Parse: the authority is what lies between "//" and the next "/"
parseAuthority(scheme, afterAuth, a, force, query, frag) ==
    IF ~validHost(IF a = 0 THEN afterAuth ELSE SubSeq(afterAuth, 1, a - 1))
    THEN NoURL
    ELSE setPath(scheme,
                 IF a = 0 THEN afterAuth ELSE SubSeq(afterAuth, 1, a - 1),
                 IF a = 0 THEN <<>> ELSE SubSeq(afterAuth, a, Len(afterAuth)),
                 force, query, frag)

\* url.Parse: what follows the scheme and precedes the query
parseRest(scheme, rest, colon, slash, force, query, frag) ==
    IF ~HasPrefix(rest, <<"/">>) /\ scheme # <<>>
    THEN IF ~unescapeOK(frag) THEN NoURL
         ELSE [NoURL EXCEPT !.ok = TRUE, !.Scheme = scheme, !.Opaque = rest,
                            !.ForceQuery = force, !.RawQuery = query,
                            !.Fragment = unescape(frag)]
    ELSE IF ~HasPrefix(rest, <<"/">>) /\ colon > 0 /\ (slash = 0 \/ colon < slash)
    THEN NoURL
    ELSE IF /\ (scheme # <<>> \/ ~HasPrefix(rest, <<"/", "/", "/">>))
            /\ HasPrefix(rest, <<"/", "/">>)
    THEN parseAuthority(scheme, SubSeq(rest, 3, Len(rest)),
                        Index(SubSeq(rest, 3, Len(rest)), "/"), force, query, frag)
    ELSE setPath(scheme, <<>>, rest, force, query, frag)

\* url.Parse: the query is split off, a lone trailing "?" sets ForceQuery
parseQuery(scheme, r0, force, q, frag) ==
    LET rest == IF force THEN SubSeq(r0, 1, Len(r0) - 1)
                ELSE IF q = 0 THEN r0 ELSE SubSeq(r0, 1, q - 1)
    IN  parseRest(scheme, rest, Index(rest, ":"), Index(rest, "/"), force,
                  IF force \/ q = 0 THEN <<>> ELSE SubSeq(r0, q + 1, Len(r0)),
                  frag)

\* url.Parse: the scheme is split off and lower-cased
parseScheme(gs, frag) ==
    IF ~gs.ok THEN NoURL
    ELSE parseQuery(ToLower(gs.scheme), gs.rest,
                    HasSuffix(gs.rest, <<"?">>) /\ Count(gs.rest, "?") = 1,
                    Index(gs.rest, "?"), frag)

\* url.Parse: the fragment is split off at the first "#"
parseFragment(rawurl, h) ==
    parseScheme(getscheme(IF h = 0 THEN rawurl ELSE SubSeq(rawurl, 1, h - 1)),
                IF h = 0 THEN <<>> ELSE SubSeq(rawurl, h + 1, Len(rawurl)))

\* url.Parse: ok = FALSE is the error return
Parse(rawurl) == parseFragment(rawurl, Index(rawurl, "#"))

\* (*URL).EscapedPath
EscapedPath(u) ==
    IF u.RawPath # <<>> /\ validEncodedPath(u.RawPath)
       /\ unescapeOK(u.RawPath) /\ unescape(u.RawPath) = u.Path
    THEN u.RawPath
    ELSE escape(u.Path, "path")

\* (*URL).String, once the scheme, the authority and the escaped path are
\* written: a "/" before a relative path after a host, "./" before a first
\* element with a colon when nothing precedes it, then query and fragment
stringParts(u, sch, auth, path, slash) ==
    (IF u.Opaque # <<>> THEN sch \o u.Opaque
     ELSE sch \o auth
          \o (IF path # <<>> /\ path[1] # "/" /\ u.Host # <<>> THEN <<"/">> ELSE <<>>)
          \o (IF sch \o auth = <<>> /\ ~(path # <<>> /\ path[1] # "/" /\ u.Host # <<>>)
                 /\ Contains(IF slash = 0 THEN path ELSE SubSeq(path, 1, slash - 1), ":")
              THEN <<".", "/">> ELSE <<>>)
          \o path)
    \o (IF u.ForceQuery \/ u.RawQuery # <<>> THEN <<"?">> \o u.RawQuery ELSE <<>>)
    \o (IF u.Fragment # <<>> THEN <<"#">> \o escape(u.Fragment, "fragment") ELSE <<>>)

stringPath(u, sch, auth, path) == stringParts(u, sch, auth, path, Index(path, "/"))

\* (*URL).String
String(u) ==
    stringPath(u,
               IF u.Scheme # <<>> THEN u.Scheme \o <<":">> ELSE <<>>,
               IF u.Scheme # <<>> \/ u.Host # <<>>
               THEN (IF u.Host # <<>> \/ u.Path # <<>> THEN <<"/", "/">> ELSE <<>>)
                    \o u.Host
               ELSE <<>>,
               EscapedPath(u))

----------------------------------------------------------------------------
(* uris.go: path-prefix utility *)

\* rawHasPrefix: prefixSlash stays empty when prefix is empty or already
\* ends with the separator
rawHasPrefix(s, prefix, pathSep) ==
    LET prefixSlash == IF prefix # <<>> /\ ~HasSuffix(prefix, pathSep)
                       THEN prefix \o pathSep ELSE <<>>
    IN  s = prefix \/ HasPrefix(s, prefixSlash)

pathHasPrefix(s, prefix) == rawHasPrefix(s, prefix, <<"/">>)

filepathHasPrefix(s, prefix) == rawHasPrefix(s, prefix, <<PathSeparator>>)

\* rawTrimPrefix without the case s == prefix
rawTrimPrefix_NoEqualCase(s, prefix, pathSep) ==
    TrimPrefix(s, IF ~HasSuffix(prefix, pathSep) THEN prefix \o pathSep ELSE prefix)

rawTrimPrefix(s, prefix, pathSep) ==
    IF s = prefix THEN <<>>
    ELSE TrimPrefix(s, IF ~HasSuffix(prefix, pathSep) THEN prefix \o pathSep
                       ELSE prefix)

filepathTrimPrefix(s, prefix) == rawTrimPrefix(s, prefix, <<PathSeparator>>)

pathTrimPrefix(s, prefix) == rawTrimPrefix(s, prefix, <<"/">>)

----------------------------------------------------------------------------
(* uris.go: identifier translator *)

\* probablyFileURI without the test of the scheme
probablyFileURI_AnyScheme(candidate) == candidate.Path # <<>>

probablyFileURI(candidate) ==
    IF ~(candidate.Scheme = <<>> \/ candidate.Scheme = <<"f", "i", "l", "e">>)
    THEN FALSE
    ELSE IF candidate.Path = <<>> THEN FALSE
    ELSE TRUE

\* clientToServerURI after url.Parse
clientToServerParsed(id, cacheDir, parsedURI) ==
    IF ~parsedURI.ok THEN id
    ELSE IF ~probablyFileURI(parsedURI) THEN id
    ELSE String([parsedURI EXCEPT !.Path = PathJoin(cacheDir, parsedURI.Path)])

clientToServerURI(id, sysCacheDir) ==
    clientToServerParsed(id, ToSlash(sysCacheDir), Parse(id))

\* serverToClientURI after url.Parse
serverToClientParsed(id, cacheDir, parsedURI) ==
    IF ~parsedURI.ok THEN id
    ELSE IF ~probablyFileURI(parsedURI) THEN id
    ELSE String(IF pathHasPrefix(parsedURI.Path, cacheDir)
                THEN [parsedURI EXCEPT
                        !.Path = PathJoin(<<"/">>,
                                   pathTrimPrefix(parsedURI.Path, cacheDir))]
                ELSE parsedURI)

serverToClientURI(id, sysCacheDir) ==
    serverToClientParsed(id, ToSlash(sysCacheDir), Parse(id))

----------------------------------------------------------------------------
(* Inputs of the translator *)

\* the longest path handed to the translator, in elements
MaxSegs == 2

\* path elements: empty, dot, dot-dot, a name, a longer name with the same
\* start, an escaped name and a name that needs escaping
SegVals ==
    {<<>>, <<".">>, <<".", ".">>, <<"c">>, <<"c", "c">>, <<"%", "6", "3">>, <<" ">>}

SegLists == UNION {[1..n -> SegVals] : n \in 0..MaxSegs}

Paths == {lead \o JoinStrings(segs, <<"/">>) : lead \in {<<>>, <<"/">>}, segs \in SegLists}

FileScheme == <<"f", "i", "l", "e", ":">>

\* what surrounds the path: <<head, tail>>
Forms ==
    { <<<<>>, <<>>>>,
      <<FileScheme \o <<"/", "/">>, <<>>>>,
      <<FileScheme, <<>>>>,
      <<<<"F", "i", "l", "e", ":", "/", "/">>, <<>>>>,
      <<FileScheme \o <<"/", "/", "h">>, <<>>>>,
      <<<<"m", "e", "m", ":", "/", "/">>, <<>>>>,
      <<FileScheme \o <<"/", "/">>, <<"?", "q">>>>,
      <<FileScheme \o <<"/", "/">>, <<"#">>>> }

Identifiers == {f[1] \o p \o f[2] : f \in Forms, p \in Paths}

\* values of the sysCacheDir argument
CacheDirs ==
    { <<"/", "c">>, <<"/", "c", "/">>, <<"/", "c", "/", "c", "c">>,
      <<"c">>, <<"/">>, <<"/", "c", "/", ".">> }

----------------------------------------------------------------------------
(* Specification of the translator: an identifier and a cache directory are
   chosen, one translation is applied and then the opposite one *)

WalkIdle == /\ payload = <<>> /\ wmode = "nil" /\ wstate = "off" /\ wresult = <<>>

CacheIdle ==
    /\ cacheRoot = <<>> /\ sessionID = <<>> /\ spc = <<>> /\ fs = {} /\ touched = <<>>

InitURI ==
    /\ uri \in Identifiers
    /\ sysDir \in CacheDirs
    /\ first = "none"
    /\ out1 = <<>>
    /\ back = FALSE
    /\ out2 = <<>>
    /\ WalkIdle
    /\ CacheIdle

ToServer ==
    /\ first = "none"
    /\ first' = "c2s"
    /\ out1' = clientToServerURI(uri, sysDir)
    /\ UNCHANGED <<uri, sysDir, back, out2, walkVars, cacheVars>>

ToClient ==
    /\ first = "none"
    /\ first' = "s2c"
    /\ out1' = serverToClientURI(uri, sysDir)
    /\ UNCHANGED <<uri, sysDir, back, out2, walkVars, cacheVars>>

BackToClient ==
    /\ first = "c2s"
    /\ ~back
    /\ back' = TRUE
    /\ out2' = serverToClientURI(out1, sysDir)
    /\ UNCHANGED <<uri, sysDir, first, out1, walkVars, cacheVars>>

BackToServer ==
    /\ first = "s2c"
    /\ ~back
    /\ back' = TRUE
    /\ out2' = clientToServerURI(out1, sysDir)
    /\ UNCHANGED <<uri, sysDir, first, out1, walkVars, cacheVars>>

NextURI == ToServer \/ ToClient \/ BackToClient \/ BackToServer

SpecURI == InitURI /\ [][NextURI]_vars

----------------------------------------------------------------------------
(* Properties of the translator *)

FileWord == <<"f", "i", "l", "e">>

\* the identifier parses, its scheme is empty or file and its path is not empty
FileLike(id) == Parse(id).ok /\ Parse(id).Scheme \in {<<>>, FileWord} /\ Parse(id).Path # <<>>

\* p is the directory c or lies below it at a directory boundary
LiesUnder(p, c) ==
    \/ p = c
    \/ HasPrefix(p, IF HasSuffix(c, <<"/">>) THEN c ELSE c \o <<"/">>)

\* c is an absolute directory in cleaned form
CleanAbsolute(c) == c # <<>> /\ c[1] = "/" /\ Clean(c) = c

\* the identifier is written the way the translator itself writes one: its
\* path is rooted at "/", is in cleaned form and carries the default
\* percent-encoding, and serialising the parsed identifier returns it
Canonical(id) ==
    LET u == Parse(id) IN
    /\ u.ok
    /\ u.Path # <<>> /\ u.Path[1] = "/" /\ Clean(u.Path) = u.Path
    /\ u.RawPath = <<>>
    /\ String(u) = id

\* the identifier starts with a scheme (RFC 3986: a letter, then letters,
\* digits, "+", "-", ".", up to the first ":") that is not "file"
NonFileScheme(id) ==
    \E i \in 2..Len(id) :
        /\ id[i] = ":"
        /\ id[1] \in Letters
        /\ \A j \in 1..(i - 1) : id[j] \in Letters \cup Digits \cup {"+", "-", "."}
        /\ ToLower(SubSeq(id, 1, i - 1)) # FileWord

\* C1 as claimed: for every cache directory and every client-rooted
\* file-like identifier, translating to the server view and back returns
\* the original identifier.
C1_RoundTripAll ==
    (first = "c2s" /\ back /\ FileLike(uri) /\ Parse(uri).Path[1] = "/")
        => out2 = uri

\* C1 as amended: for every absolute cache directory in cleaned form and
\* every file-like identifier in canonical form (path rooted at "/", already
\* clean, default encoding), translating to the server view and back
\* returns the original identifier.
C1_RoundTripCanonical ==
    (first = "c2s" /\ back /\ FileLike(uri) /\ Canonical(uri) /\ CleanAbsolute(sysDir))
        => out2 = uri

\* C1, reached: a canonical identifier was moved below a clean absolute cache
\* directory and came back as it was
C1_Witness ==
    /\ first = "c2s" /\ back
    /\ FileLike(uri) /\ Canonical(uri) /\ CleanAbsolute(sysDir)
    /\ Len(Parse(uri).Path) > 1
    /\ Parse(out1).Path = sysDir \o Parse(uri).Path
    /\ out1 # uri
    /\ out2 = uri

\* C2 as claimed: for every cache directory and every file-like identifier
\* whose path lies under it, translating to the client view and back returns
\* the original identifier.
C2_RoundTripAll ==
    (first = "s2c" /\ back /\ FileLike(uri)
       /\ LiesUnder(Parse(uri).Path, ToSlash(sysDir)))
        => out2 = uri

\* C2 as amended: for every absolute cache directory in cleaned form and
\* every canonical file-like identifier whose path lies under it,
\* translating to the client view and back returns the original identifier.
C2_RoundTripCanonical ==
    (first = "s2c" /\ back /\ FileLike(uri) /\ Canonical(uri) /\ CleanAbsolute(sysDir)
       /\ LiesUnder(Parse(uri).Path, ToSlash(sysDir)))
        => out2 = uri

\* C2, reached: a canonical identifier below the cache directory was re-rooted
\* at "/" and came back as it was
C2_Witness ==
    /\ first = "s2c" /\ back
    /\ FileLike(uri) /\ Canonical(uri) /\ CleanAbsolute(sysDir)
    /\ LiesUnder(Parse(uri).Path, ToSlash(sysDir))
    /\ Parse(uri).Path # sysDir
    /\ sysDir \o Parse(out1).Path = Parse(uri).Path
    /\ out1 # uri
    /\ out2 = uri

\* C3: serverToClientURI rewrites the path of a file-like identifier only
\* when the path is the cache directory or lies below it at a directory
\* boundary, for cache directories with or without a trailing separator:
\* otherwise the path is left as it was, and on a match the cache directory
\* is stripped and the remainder re-rooted at "/".
C3_RewriteOnlyUnderCacheDir ==
    (first = "s2c" /\ FileLike(uri)) =>
        LET p == Parse(uri).Path
            c == ToSlash(sysDir)
        IN  IF LiesUnder(p, c)
            THEN Parse(out1).ok
                 /\ Parse(out1).Path = Clean(<<"/">> \o SubSeq(p, Len(c) + 1, Len(p)))
            ELSE Parse(out1).ok /\ Parse(out1).Path = p

\* C8: an identifier whose scheme is present and is not "file" is returned
\* exactly as given by both translations, for every cache directory.
C8_NonFileUnchanged ==
    (first \in {"c2s", "s2c"} /\ NonFileScheme(uri)) => out1 = uri

\* C8, reached: an identifier of another scheme whose path lies below the
\* cache directory was handed to serverToClientURI and returned as given
C8_Witness ==
    /\ first = "s2c"
    /\ NonFileScheme(uri)
    /\ Parse(uri).ok
    /\ CleanAbsolute(sysDir) /\ Len(sysDir) > 1
    /\ Parse(uri).Path # ToSlash(sysDir)
    /\ LiesUnder(Parse(uri).Path, ToSlash(sysDir))
    /\ out1 = uri

\* C10: the path of clientToServerURI(id, c) is the directory c or lies
\* under it at a directory boundary, for every file-like client identifier,
\* also one with "." or ".." elements or a path that is not rooted at "/".
\* Stated for the absolute cache directories, which a file identifier can
\* name.
C10_StaysInsideCacheDir ==
    (first = "c2s" /\ FileLike(uri) /\ sysDir[1] = "/") =>
        /\ Parse(out1).ok
        /\ InsideDir(Parse(out1).Path, ToSlash(sysDir))

----------------------------------------------------------------------------
(* uris.go: structural walker *)

(* The decoded object is a tree of nodes:
     string       a Go string                       [t, v]
     DocumentURI  an lsp.DocumentURI                [t, v]
     scalar       float64, bool or nil              [t, v]
     map          map[string]interface{}            [t, m]
     slice        []interface{}                     [t, s]
     struct       a struct held by value            [t, hasURI, URI, fields]
     ptr          a pointer to a struct, or nil     [t, isNil, to]
     array        a fixed-size array of structs     [t, s]
     typedslice   a slice of structs ([]Location)   [t, s]                 *)
Str(v) == [t |-> "string", v |-> v]
DocURI(v) == [t |-> "DocumentURI", v |-> v]
Scalar(v) == [t |-> "scalar", v |-> v]
Map(m) == [t |-> "map", m |-> m]
Slice(s) == [t |-> "slice", s |-> s]
Struct(hasURI, u, fields) ==
    [t |-> "struct", hasURI |-> hasURI, URI |-> u, fields |-> fields]
Ptr(to) == [t |-> "ptr", isNil |-> FALSE, to |-> to]
NilPtr == [t |-> "ptr", isNil |-> TRUE, to |-> <<>>]
Array(s) == [t |-> "array", s |-> s]
TypedSlice(s) == [t |-> "typedslice", s |-> s]

K_uri == <<"u", "r", "i">>
K_rootPath == <<"r", "o", "o", "t", "P", "a", "t", "h">>
K_rootUri == <<"r", "o", "o", "t", "U", "r", "i">>
K_url == <<"u", "r", "l">>
K_changes == <<"c", "h", "a", "n", "g", "e", "s">>
K_top == <<"t", "o", "p">>
K_na == <<"n", "/", "a">>

\* string(k) for a slice index k: the one-character string of that code point
RuneString(k) == <<[rune |-> k]>>

\* how often one range loop may produce entries that were created during it
MaxRevisit == 1

Ok(v) == [val |-> v, panic |-> FALSE]
Panicked(v) == [val |-> v, panic |-> TRUE]

\* the update argument applied to an identifier; ctx.mode is "toServer" or
\* "toClient" here (a nil update cannot be called)
update(ctx, id) ==
    IF ctx.mode = "toServer" THEN clientToServerURI(id, ctx.dir)
    ELSE serverToClientURI(id, ctx.dir)

\* m without key k
MapDelete(m, k) == [x \in DOMAIN m \ {k} |-> m[x]]

\* m with key k bound to v
MapStore(m, k, v) == [x \in DOMAIN m \cup {k} |-> IF x = k THEN v ELSE m[x]]

RECURSIVE walk(_, _, _)
RECURSIVE walkMap(_, _, _, _, _)
RECURSIVE walkElems(_, _, _)
RECURSIVE walkFields(_, _, _)

\* the default case for a struct: reflect.ValueOf, FieldByName("URI"),
\* SetString, then the fields of kind Ptr, Struct or Array.  SetString on a
\* value that is not addressable panics.
walkStruct(st, addressable, ctx) ==
    IF st.hasURI /\ ctx.mode # "nil" /\ ~addressable THEN {Panicked(st)}
    ELSE LET st1 == IF st.hasURI /\ ctx.mode # "nil"
                    THEN [st EXCEPT !.URI = update(ctx, st.URI)] ELSE st
         IN  {[val |-> [st1 EXCEPT !.fields = r.val], panic |-> r.panic] :
                 r \in walkFields(st1.fields, 1, ctx)}

\* the loop over rv.Field(i): fv.Interface() of a struct field is a copy
walkFields(fields, i, ctx) ==
    IF i > Len(fields) THEN {Ok(fields)}
    ELSE IF fields[i].t \in {"ptr", "struct", "array"}
    THEN UNION {IF r.panic THEN {Panicked([fields EXCEPT ![i] = r.val])}
                ELSE walkFields([fields EXCEPT ![i] = r.val], i + 1, ctx) :
                    r \in walk(fields[i], K_na, ctx)}
    ELSE walkFields(fields, i + 1, ctx)

\* case []interface{}: the elements in order
walkElems(elems, i, ctx) ==
    IF i > Len(elems) THEN {Ok(elems)}
    ELSE UNION {IF r.panic THEN {Panicked([elems EXCEPT ![i] = r.val])}
                ELSE walkElems([elems EXCEPT ![i] = r.val], i + 1, ctx) :
                    r \in walk(elems[i], RuneString(i - 1), ctx)}

\* case map[string]interface{}: the range loop.  todo holds the entries the
\* loop has yet to produce, in any order; an entry created during the loop
\* may be produced or skipped (revisit bounds how many are produced).
walkMap(m, todo, revisit, parent, ctx) ==
    IF todo = {} THEN {Ok(Map(m))}
    ELSE UNION {
        LET v == m[k]
            rest == todo \ {k}
        IN  IF k \in {K_uri, K_rootPath, K_rootUri, K_url}
               /\ v.t \in {"string", "DocumentURI"}
            THEN walkMap(IF ctx.mode # "nil"
                         THEN [m EXCEPT ![k] = DocURI(update(ctx, v.v))] ELSE m,
                         rest, revisit, parent, ctx)
            ELSE IF parent = K_changes /\ ctx.mode = "nil"
            THEN {Panicked(Map(m))}
            ELSE LET renamed == parent = K_changes
                     nk == IF renamed THEN update(ctx, k) ELSE k
                     created == renamed /\ nk \notin DOMAIN m \ {k}
                     m1 == IF renamed THEN MapStore(MapDelete(m, k), nk, v) ELSE m
                 IN  UNION {
                       IF r.panic THEN {Panicked(Map(MapStore(m1, nk, r.val)))}
                       ELSE LET m2 == MapStore(m1, nk, r.val) IN
                            walkMap(m2, rest, revisit, parent, ctx)
                            \cup (IF created /\ revisit > 0
                                  THEN walkMap(m2, rest \cup {nk}, revisit - 1,
                                               parent, ctx)
                                  ELSE {}) :
                           r \in walk(v, k, ctx)}
        : k \in todo}

\* the type switch of walk
walk(o, parent, ctx) ==
    CASE o.t = "map" -> walkMap(o.m, DOMAIN o.m, MaxRevisit, parent, ctx)
      [] o.t = "slice" ->
            {[val |-> Slice(r.val), panic |-> r.panic] : r \in walkElems(o.s, 1, ctx)}
      [] o.t = "ptr" ->
            IF o.isNil THEN {Ok(o)}
            ELSE {[val |-> Ptr(r.val), panic |-> r.panic] :
                     r \in walkStruct(o.to, TRUE, ctx)}
      [] o.t = "struct" -> walkStruct(o, FALSE, ctx)
      [] OTHER -> {Ok(o)}

\* WalkURIFields(o, update): the possible outcomes
WalkURIFields(o, ctx) == walk(o, K_top, ctx)

----------------------------------------------------------------------------
(* Inputs of the walker *)

\* the most keys of a "changes" mapping
MaxKeys == 2

\* how many containers are put around a payload core
MaxDepth == 1

K_textDocument == <<"t", "e", "x", "t", "D", "o", "c", "u", "m", "e", "n", "t">>

\* a client identifier, a server identifier and one that is no file
U_client == FileScheme \o <<"/", "/", "/", "c", "c">>
U_server == FileScheme \o <<"/", "/", "/", "c", "/", "c", "c">>
U_mem == <<"m", "e", "m", ":", "/", "/", "/", "c", "c">>
WalkURIs == {U_client, U_server, U_mem}

\* the session cache directory the rewrite functions close over
WalkDir == <<"/", "c">>

Modes == {"nil", "toServer", "toClient"}

\* lsp.Range: a struct of scalars
RangeStruct == Struct(FALSE, <<>>, <<Scalar(<<>>)>>)

\* lsp.Location
Location(u) == Struct(TRUE, u, <<RangeStruct>>)

\* lsp.TextDocumentIdentifier
TextDocumentIdentifier(u) == Struct(TRUE, u, <<>>)

StructShapes ==
    UNION {{ Location(u),
             \* lsp.TextDocumentPositionParams: the record is a field
             Struct(FALSE, <<>>, <<TextDocumentIdentifier(u), RangeStruct>>),
             \* a record behind a pointer field
             Struct(FALSE, <<>>, <<Ptr(Location(u))>>),
             \* records in an array field and in a slice field
             Struct(FALSE, <<>>, <<Array(<<Location(u)>>)>>),
             Struct(FALSE, <<>>, <<TypedSlice(<<Location(u)>>)>>) } :
           u \in {U_client, U_server}}

KeySets == {K \in SUBSET WalkURIs : 1 <= Cardinality(K) /\ Cardinality(K) <= MaxKeys}

Cores ==
    {Map(k :> Str(u)) : k \in {K_uri, K_rootPath, K_rootUri, K_url, K_textDocument},
                        u \in WalkURIs}
    \cup {Map(K_uri :> DocURI(u)) : u \in WalkURIs}
    \cup {Map(K_uri :> Scalar(<<>>))}
    \cup {Map(K_changes :> Map([k \in K |-> Slice(<<Str(k)>>)])) : K \in KeySets}
    \cup {Map(K_changes :> Map([k \in K |-> Map(K_uri :> Str(k))])) : K \in KeySets}
    \cup StructShapes
    \cup {Ptr(st) : st \in StructShapes}
    \cup {NilPtr}

Wrap(x) == {Slice(<<x>>), Map(K_textDocument :> x), Map(K_changes :> x)}

RECURSIVE Wrapped(_)
Wrapped(d) ==
    IF d = 0 THEN Cores
    ELSE Wrapped(d - 1) \cup UNION {Wrap(x) : x \in Wrapped(d - 1)}

\* a struct held by value is reached only as a nested value, never as the root
Payloads == {x \in Wrapped(MaxDepth) : x.t # "struct"}

----------------------------------------------------------------------------
(* Specification of the walker: a payload and an update argument are chosen
   and WalkURIFields runs once *)

URIIdle ==
    /\ uri = <<>> /\ first = "none" /\ out1 = <<>> /\ back = FALSE /\ out2 = <<>>

InitWalk ==
    /\ payload \in Payloads
    /\ wmode \in Modes
    /\ sysDir = WalkDir
    /\ wstate = "ready"
    /\ wresult = <<>>
    /\ URIIdle
    /\ CacheIdle

Walk ==
    /\ wstate = "ready"
    /\ \E r \in WalkURIFields(payload, [mode |-> wmode, dir |-> sysDir]) :
          /\ wresult' = r.val
          /\ wstate' = IF r.panic THEN "panic" ELSE "done"
    /\ UNCHANGED <<payload, wmode, uriVars, cacheVars>>

NextWalk == Walk

SpecWalk == InitWalk /\ [][NextWalk]_vars

----------------------------------------------------------------------------
(* Properties of the walker *)

\* C7: WalkURIFields never fails, for every payload and every update
\* argument, nil included.
C7_NeverFails == wstate # "panic"

\* the identifier values held by entries named uri, rootPath, rootUri or
\* url, through any nesting of mappings and sequences
RECURSIVE UriValues(_)
UriValues(o) ==
    CASE o.t = "map" ->
            UNION {IF k \in {K_uri, K_rootPath, K_rootUri, K_url}
                      /\ o.m[k].t \in {"string", "DocumentURI"}
                   THEN {o.m[k].v} ELSE UriValues(o.m[k]) : k \in DOMAIN o.m}
      [] o.t = "slice" -> UNION {UriValues(o.s[i]) : i \in DOMAIN o.s}
      [] OTHER -> {}

\* the payload is made of mappings, sequences and scalars only
RECURSIVE OnlyMapsAndSeqs(_)
OnlyMapsAndSeqs(o) ==
    CASE o.t = "map" -> \A k \in DOMAIN o.m : OnlyMapsAndSeqs(o.m[k])
      [] o.t = "slice" -> \A i \in DOMAIN o.s : OnlyMapsAndSeqs(o.s[i])
      [] OTHER -> o.t \in {"string", "DocumentURI", "scalar"}

\* the URI fields of the records reachable at any depth
RECURSIVE StructURIs(_)
StructURIs(o) ==
    CASE o.t = "map" -> UNION {StructURIs(o.m[k]) : k \in DOMAIN o.m}
      [] o.t \in {"slice", "array", "typedslice"} ->
            UNION {StructURIs(o.s[i]) : i \in DOMAIN o.s}
      [] o.t = "ptr" -> IF o.isNil THEN {} ELSE StructURIs(o.to)
      [] o.t = "struct" ->
            (IF o.hasURI THEN {o.URI} ELSE {})
            \cup UNION {StructURIs(o.fields[i]) : i \in DOMAIN o.fields}
      [] OTHER -> {}

WalkCtx == [mode |-> wmode, dir |-> sysDir]

\* the payload is {"changes": {identifier: edit list, ...}}
IsChangesPayload(o) ==
    /\ o.t = "map"
    /\ DOMAIN o.m = {K_changes}
    /\ o.m[K_changes].t = "map"
    /\ \A k \in DOMAIN o.m[K_changes].m : o.m[K_changes].m[k].t = "slice"

\* C4: walking a "changes" mapping with a rewrite function f leaves exactly
\* the keys f(k), each bound to the edit list that k was bound to, for any
\* number of keys and any iteration order.  Stated for mappings in which no
\* rewritten key coincides with another key, before or after the rewrite.
C4_ChangesKeysRewrittenOnce ==
    (/\ wstate # "ready" /\ wmode # "nil" /\ IsChangesPayload(payload)
     /\ \A k1, k2 \in DOMAIN payload.m[K_changes].m :
           k1 # k2 => /\ update(WalkCtx, k1) # k2
                      /\ update(WalkCtx, k1) # update(WalkCtx, k2))
    => /\ wstate = "done"
       /\ LET old == payload.m[K_changes].m IN
          wresult.m[K_changes].m =
              [nk \in {update(WalkCtx, k) : k \in DOMAIN old} |->
                  old[CHOOSE k \in DOMAIN old : update(WalkCtx, k) = nk]]

\* C5: walking with a rewrite function f leaves every entry named uri,
\* rootUri, rootPath or url that holds a string, at any nesting of mappings
\* and sequences, holding f(original value), applied once.
C5_UriEntriesRewrittenOnce ==
    (wstate # "ready" /\ wmode # "nil" /\ OnlyMapsAndSeqs(payload))
    => /\ wstate = "done"
       /\ UriValues(wresult) = {update(WalkCtx, v) : v \in UriValues(payload)}

\* C6: walking with a rewrite function f replaces the URI field of every
\* record reachable at any depth (in sequences, mappings, or as a field of
\* another record: a nested record, a pointer or a container of records) by
\* f(original value).
C6_StructURIsRewritten ==
    (wstate # "ready" /\ wmode # "nil" /\ StructURIs(payload) # {})
    => /\ wstate = "done"
       /\ StructURIs(wresult) = {update(WalkCtx, u) : u \in StructURIs(payload)}

----------------------------------------------------------------------------
(* uris.go: workspace cache *)

\* the sessions that are active at the same time
Sessions == {1, 2}

\* the length of a session key; a key is a UUID in its string form, of a
\* fixed length and without separators
KeyLen == 2

KeyChars == {"0", "f"}

SessionKeys == [1..KeyLen -> KeyChars]

\* values of the -cacheDirectory flag
CacheRootFlags ==
    {<<"/", "c">>, <<"/", "c", "/">>, <<"c">>, <<"/">>, <<>>}

\* the files of the client's workspace that match the globs
RemoteFiles == {<<"a">>, <<"d", "/", "a">>}

\* workspaceCacheDir without the session key
workspaceCacheDir_Shared(s) == FilepathJoin(cacheRoot, <<>>)

workspaceCacheDir(s) == FilepathJoin(cacheRoot, sessionID[s])

\* os.RemoveAll: the path and everything below it
RemoveAll(files, dir) == {p \in files : ~InsideDir(p, dir)}

InitCache ==
    /\ cacheRoot \in CacheRootFlags
    /\ sessionID \in {f \in [Sessions -> SessionKeys] :
                        \A s, t \in Sessions : s # t => f[s] # f[t]}
    /\ spc = [s \in Sessions |-> "new"]
    /\ fs = {}
    /\ touched = [s \in Sessions |-> {}]
    /\ URIIdle
    /\ sysDir = <<>>
    /\ WalkIdle

\* cloneWorkspaceToCache: fs.Clone is called with the session's directory
CloneStart(s) ==
    /\ spc[s] = "new"
    /\ spc' = [spc EXCEPT ![s] = "cloning"]
    /\ fs' = fs \cup {workspaceCacheDir(s)}
    /\ touched' = [touched EXCEPT ![s] = @ \cup {workspaceCacheDir(s)}]
    /\ UNCHANGED <<cacheRoot, sessionID, uriVars, walkVars>>

\* fs.Clone materialises one more file below the directory it was given
CloneWrite(s) ==
    /\ spc[s] = "cloning"
    /\ \E f \in RemoteFiles :
          LET p == FilepathJoin(workspaceCacheDir(s), f) IN
          /\ p \notin fs
          /\ fs' = fs \cup {p}
          /\ touched' = [touched EXCEPT ![s] = @ \cup {p}]
    /\ UNCHANGED <<cacheRoot, sessionID, spc, uriVars, walkVars>>

\* fs.Clone returns nil: "Cloned workspace to ..."
CloneDone(s) ==
    /\ spc[s] = "cloning"
    /\ spc' = [spc EXCEPT ![s] = "cloned"]
    /\ UNCHANGED <<cacheRoot, sessionID, fs, touched, uriVars, walkVars>>

\* fs.Clone returns an error, which is wrapped and returned
CloneFail(s) ==
    /\ spc[s] = "cloning"
    /\ spc' = [spc EXCEPT ![s] = "failed"]
    /\ UNCHANGED <<cacheRoot, sessionID, fs, touched, uriVars, walkVars>>

\* cleanWorkspaceCache: os.RemoveAll of the session's directory
cleanWorkspaceCache(s) ==
    /\ spc[s] \in {"cloned", "failed"}
    /\ spc' = [spc EXCEPT ![s] = "gone"]
    /\ fs' = RemoveAll(fs, workspaceCacheDir(s))
    /\ touched' = [touched EXCEPT ![s] =
                      @ \cup {workspaceCacheDir(s)}
                        \cup {p \in fs : InsideDir(p, workspaceCacheDir(s))}]
    /\ UNCHANGED <<cacheRoot, sessionID, uriVars, walkVars>>

NextCache ==
    \E s \in Sessions :
        \/ CloneStart(s)
        \/ CloneWrite(s)
        \/ CloneDone(s)
        \/ CloneFail(s)
        \/ cleanWorkspaceCache(s)

SpecCache == InitCache /\ [][NextCache]_vars

----------------------------------------------------------------------------
(* Properties of the workspace cache *)

====
